---- MODULE Spec2Model ----
(***************************************************************************)
(* Model of src/slack_gateway_agent.py: the entrypoint slack_agent (an     *)
(* async generator), AgentWithIdentity.__init__, get_access_token and the  *)
(* async generator access_to_slack with its nested get_full_tools_list.    *)
(*                                                                         *)
(* Strings are modelled as sequences of tokens; an f-string is the         *)
(* concatenation of its parts.  The Japanese literals of the source are    *)
(* written as ASCII tokens (the source line of each is given where it is   *)
(* defined).  The external collaborators (credential provider, MCP         *)
(* transport, gateway, Strands Agent) are nondeterministic: every call may *)
(* succeed or raise an Exception with any message of Messages.             *)
(***************************************************************************)
EXTENDS Integers, Sequences, FiniteSets, TLC

(* ------------------------------ bounds --------------------------------- *)
MaxInvocations == 2
MaxPages == 2
MaxEvents == 2
MaxLoop == 4

(* ------------------------------ inputs --------------------------------- *)
\* Python's None, distinct from every string (in particular from "").
None == "<None>"

\* os.environ.get(...) for GATEWAY_URL / COGNITO_SCOPE: unset, empty or set.
UrlValues == {None, "", "https://gw"}
ScopeValues == {None, "", "scope"}

\* The payload: None, or a dict given by its set of keys.
PayloadKeys == {"prompt", "other"}
Payloads == {[isNone |-> TRUE, keys |-> {}]}
            \cup {[isNone |-> FALSE, keys |-> k] : k \in SUBSET PayloadKeys}

\* Exception messages (str(e)) the collaborators may raise with.
Messages == { <<"boom">>, <<"Read timeout">>, <<"None">>,
              <<"Read timeout", "None">>, <<"Read timeout", "none">> }

\* A token is a sequence of characters; only its length matters to the code.
Token(n) == [i \in 1..n |-> "t"]

\* The value of access_token before line 116 has returned (texts being
\* sequences, None is written as the sequence holding only None).
NoToken == << None >>

\* Tokens the credential provider may return (SpecToken), and the one token
\* followed through a whole invocation (Spec): nothing after line 132 reads it.
Tokens == {Token(n) : n \in {0, 1, 19, 20, 21, 40}}
IssuedTokens == {Token(40)}

\* Contents a gateway page may carry, and the cursors it may return.
PageItems == { <<>>, <<"A">>, <<"A", "B">>, <<"C">> }
Cursors == {"c1", ""}

\* Events the Agent Runtime's stream_async may produce (dicts with one key).
RuntimeEvents == { [key |-> "data", val |-> <<"d1">>],
                   [key |-> "error", val |-> <<"rt">>],
                   [key |-> "current_tool_use", val |-> <<"t1">>] }

(* ------------------------------- state --------------------------------- *)
VARIABLES
  inv,              \* number of the current invocation of slack_agent
  prevConfigError,  \* the previous invocation ended with the configuration error
  env,              \* the process environment read by __init__
  payload,          \* the payload of the current invocation
  pc,               \* position of slack_agent
  gen,              \* the access_to_slack generator: none, active, suspended, closed
  outcome,          \* how the invocation ended (history)
  errMsg,           \* str(e) of the exception that ended it (history)
  escaped,          \* the exception that left slack_agent, or "none"
  out,              \* events yielded by slack_agent, each with who generated it
  tokenCalls,       \* calls of get_access_token in this invocation
  transportOpen,    \* the MCP client is inside its `with` block
  opens,            \* successful __enter__ of mcp_client in this invocation
  releases,         \* __exit__ of mcp_client in this invocation
  pagination_token, \* local of get_full_tools_list
  tools,            \* local `tools` of get_full_tools_list / access_to_slack
  requests,         \* cursors passed to list_tools_sync (the gateway's log of the
                    \* discovery, dropped once its tools are handed to the Agent)
  served,           \* pages the gateway returned (same log)
  discoveries,      \* returns of get_full_tools_list in this invocation
  agentConstructed, \* Agent(...) constructions in this invocation
  streamCalls,      \* agent.stream_async calls in this invocation
  produced,         \* events the runtime's stream has produced
  validated,        \* invocations so far that passed both validations
  totalTokenCalls,  \* calls of get_access_token over all invocations
  totalOpens,       \* invocations so far whose transport was opened
  totalDiscoveryRuns, \* calls of get_full_tools_list over all invocations
  access_token,     \* local of access_to_slack (None before line 116 returns)
  log               \* the token-related log records of this invocation

vars == << inv, prevConfigError, env, payload, pc, gen, outcome, errMsg, escaped,
           out, tokenCalls, transportOpen, opens, releases, pagination_token,
           tools, requests, served, discoveries, agentConstructed, streamCalls,
           produced, validated, totalTokenCalls, totalOpens, totalDiscoveryRuns,
           access_token, log >>

invVars == << inv, prevConfigError, env, payload >>
trVars == << transportOpen, opens, releases >>
pgVars == << pagination_token, tools, requests, served, discoveries >>
rtVars == << agentConstructed, streamCalls, produced >>
totVars == << validated, totalTokenCalls, totalOpens, totalDiscoveryRuns >>
tkVars == << access_token, log >>

(* --------------------------- string helpers ---------------------------- *)
\* str.lower() on one token.
LowerTok(t) ==
  CASE t = "Read timeout" -> "read timeout"
    [] t = "None" -> "none"
    [] OTHER -> t

\* str.lower()
Lower(s) == [i \in DOMAIN s |-> LowerTok(s[i])]

\* `needle in s` for a one-token needle.
Contains(s, needle) == \E i \in DOMAIN s : s[i] = needle

ErrorEvent(text) == [key |-> "error", val |-> text]

\* The slice length of access_token[:20] (lines 90 and 129).
PrefixLen == 20

\* access_token[:20]
TokenPrefix(t) == SubSeq(t, 1, IF Len(t) < PrefixLen THEN Len(t) ELSE PrefixLen)

\* The log records that involve the token: the prefix records of lines 90
\* and 129 (text) and the length record of line 91 (len).
PrefixRecord(line, t) == [line |-> line, text |-> TokenPrefix(t), len |-> -1]
LengthRecord(t) == [line |-> 91, text |-> <<>>, len |-> Len(t)]

(* ------------------------- texts of the source ------------------------- *)
\* ValueError messages of __init__ (lines 41 and 43).
GatewayUrlRequired == <<"GATEWAY_URL required">>
CognitoScopeRequired == <<"COGNITO_SCOPE required">>
\* RuntimeError message of line 182.
NoToolsMsg == <<"no tools available from Gateway">>
\* The error text of line 326.
InvalidPayloadText == <<"invalid payload: 'prompt' field required">>

\* f"設定エラー: {str(e)}. GATEWAY_URLと...確認してください。" (line 316)
ConfigErrorText(msg) == <<"ConfigError:">> \o msg \o <<"check GATEWAY_URL and COGNITO_SCOPE">>

\* f"リクエストの処理中にエラーが発生しました: {str(e)}" (line 344)
SlackAgentExcept(msg) == <<"RequestFailed:">> \o msg

Classify_CaseSensitive(msg) ==
  IF Contains(msg, "Read timeout")
  THEN IF Contains(msg, "None")
       THEN <<"GatewayUrlConfigError:">> \o msg
       ELSE <<"GatewayTimeout:">> \o msg
  ELSE <<"ExecutionFailed:">> \o msg

\* The except block of access_to_slack (lines 284-293): the text of the one
\* error event it yields for an exception with message msg.
Classify(msg) ==
  LET error_msg == Lower(msg) IN
  IF Contains(error_msg, "read timeout")
  THEN IF Contains(error_msg, "none")
       THEN <<"GatewayUrlConfigError:">> \o msg
       ELSE <<"GatewayTimeout:">> \o msg
  ELSE <<"ExecutionFailed:">> \o msg

(* --------------------------- AgentWithIdentity ------------------------- *)
\* Python truthiness of an environment value (`if not self.gateway_url`).
Falsy(v) == v = None \/ v = ""

ConfigValid_IsNotNone(e) == e.gateway_url # None /\ e.cognito_scope # None

\* __init__ returns without raising ValueError.
ConfigValid(e) == ~Falsy(e.gateway_url) /\ ~Falsy(e.cognito_scope)

\* The message of the ValueError __init__ raises.
ValueErrorMsg(e) ==
  IF Falsy(e.gateway_url) THEN GatewayUrlRequired ELSE CognitoScopeRequired

PayloadValid_NotEmpty(p) == ~(p.isNone \/ p.keys = {})

\* The negation of `not payload or "prompt" not in payload` (line 325).
PayloadValid(p) == ~((p.isNone \/ p.keys = {}) \/ "prompt" \notin p.keys)

Relay_WithoutToolEvents(o, event, by) ==
  IF event.key \in {"error", "data"} THEN Append(o, [ev |-> event, by |-> by]) ELSE o

\* slack_agent's loop body (lines 333-340): every branch yields the event as
\* it is.  `by` records who generated the event (history only).
Relay(o, event, by) ==
  IF event.key = "error" THEN Append(o, [ev |-> event, by |-> by])
  ELSE IF event.key = "data" THEN Append(o, [ev |-> event, by |-> by])
  ELSE Append(o, [ev |-> event, by |-> by])

\* __exit__ of `with mcp_client` (line 169).
Release ==
  /\ transportOpen' = FALSE
  /\ releases' = releases + 1
  /\ opens' = opens

\* access_to_slack's except block yields its one error event, slack_agent
\* relays it, both generators end (lines 277-293, 331-334).
FailInTry(msg, how) ==
  /\ out' = Relay(out, ErrorEvent(Classify(msg)), "handler")
  /\ outcome' = how
  /\ errMsg' = msg
  /\ gen' = "closed"
  /\ pc' = "done"
  /\ UNCHANGED << escaped >>

(* ------------------------------- Init ---------------------------------- *)
Init ==
  /\ inv = 1
  /\ prevConfigError = FALSE
  /\ env \in [gateway_url : UrlValues, cognito_scope : ScopeValues]
  /\ payload \in Payloads
  /\ pc = "start"
  /\ gen = "none"
  /\ outcome = "none"
  /\ errMsg = <<>>
  /\ escaped = "none"
  /\ out = <<>>
  /\ tokenCalls = 0
  /\ transportOpen = FALSE
  /\ opens = 0
  /\ releases = 0
  /\ pagination_token = None
  /\ tools = <<>>
  /\ requests = <<>>
  /\ served = <<>>
  /\ discoveries = 0
  /\ agentConstructed = 0
  /\ streamCalls = 0
  /\ produced = <<>>
  /\ validated = 0
  /\ totalTokenCalls = 0
  /\ totalOpens = 0
  /\ totalDiscoveryRuns = 0
  /\ access_token = NoToken
  /\ log = <<>>

(* ------------------------------ slack_agent ---------------------------- *)
\* Lines 310-317: AgentWithIdentity() and the ValueError handler.
Construct ==
  /\ pc = "start"
  /\ IF ConfigValid(env)
     THEN /\ pc' = "validate"
          /\ UNCHANGED << out, outcome, errMsg >>
     ELSE /\ out' = Append(out, [ev |-> ErrorEvent(ConfigErrorText(ValueErrorMsg(env))),
                                 by |-> "handler"])
          /\ outcome' = "config_error"
          /\ errMsg' = ValueErrorMsg(env)
          /\ pc' = "done"
  /\ UNCHANGED << invVars, totVars, tkVars, gen, escaped, tokenCalls, trVars, pgVars, rtVars >>

ValidatePayload_CachedToken ==
  /\ pc = "validate"
  /\ IF PayloadValid(payload)
     THEN /\ gen' = "active"
          /\ validated' = validated + 1
          /\ IF totalTokenCalls = 0
             THEN /\ tokenCalls' = tokenCalls + 1
                  /\ totalTokenCalls' = totalTokenCalls + 1
                  /\ pc' = "await_token"
                  /\ UNCHANGED access_token
             ELSE /\ pc' = "open"
                  /\ access_token' = Token(40)
                  /\ UNCHANGED << tokenCalls, totalTokenCalls >>
          /\ UNCHANGED << out, outcome, errMsg >>
     ELSE /\ out' = Append(out, [ev |-> ErrorEvent(InvalidPayloadText), by |-> "handler"])
          /\ outcome' = "invalid_payload"
          /\ errMsg' = <<>>
          /\ pc' = "done"
          /\ UNCHANGED << gen, tokenCalls, validated, totalTokenCalls, access_token >>
  /\ UNCHANGED << invVars, totalOpens, totalDiscoveryRuns, log, escaped, trVars,
                  pgVars, rtVars >>

\* Lines 324-331 and 112-116: the payload check; on success access_to_slack
\* is created and runs up to `await self.get_access_token()`.
ValidatePayload ==
  /\ pc = "validate"
  /\ IF PayloadValid(payload)
     THEN /\ gen' = "active"
          /\ validated' = validated + 1
          /\ tokenCalls' = tokenCalls + 1
          /\ totalTokenCalls' = totalTokenCalls + 1
          /\ pc' = "await_token"
          /\ UNCHANGED << out, outcome, errMsg >>
     ELSE /\ out' = Append(out, [ev |-> ErrorEvent(InvalidPayloadText), by |-> "handler"])
          /\ outcome' = "invalid_payload"
          /\ errMsg' = <<>>
          /\ pc' = "done"
          /\ UNCHANGED << gen, tokenCalls, validated, totalTokenCalls >>
  /\ UNCHANGED << invVars, totalOpens, totalDiscoveryRuns, tkVars, escaped, trVars,
                  pgVars, rtVars >>

(* ---------------------------- access_to_slack -------------------------- *)
\* Line 116 returns the token, _get_token having logged its prefix and its
\* length (lines 90-91); lines 118-166 create the client.
TokenReturns(tok) ==
  /\ pc = "await_token"
  /\ access_token' = tok
  /\ log' = log \o << PrefixRecord(90, tok), LengthRecord(tok) >>
  /\ pc' = "open"
  /\ UNCHANGED << invVars, totVars, gen, outcome, errMsg, escaped, out, tokenCalls,
                  trVars, pgVars, rtVars >>

TokenFails_InTry(msg) ==
  /\ pc = "await_token"
  /\ FailInTry(msg, "token_failed")
  /\ UNCHANGED << invVars, totVars, tkVars, tokenCalls, trVars, pgVars, rtVars >>

TokenFails_Escapes(msg) ==
  /\ pc = "await_token"
  /\ outcome' = "token_failed"
  /\ errMsg' = msg
  /\ gen' = "closed"
  /\ escaped' = "Exception"
  /\ pc' = "done"
  /\ UNCHANGED << invVars, totVars, tkVars, out, tokenCalls, trVars, pgVars, rtVars >>

\* Line 116 raises: the await is outside the try of line 168, so the
\* exception leaves access_to_slack and is caught by slack_agent (342-344).
TokenFails(msg) ==
  /\ pc = "await_token"
  /\ out' = Append(out, [ev |-> ErrorEvent(SlackAgentExcept(msg)), by |-> "handler"])
  /\ outcome' = "token_failed"
  /\ errMsg' = msg
  /\ gen' = "closed"
  /\ pc' = "done"
  /\ UNCHANGED << invVars, totVars, tkVars, escaped, tokenCalls, trVars, pgVars, rtVars >>

\* `with mcp_client:` __enter__ (line 169) starts the transport, which calls
\* create_streamable_http_transport (lines 128-135); then get_full_tools_list
\* is called (line 172) and initialises its locals (lines 150-152).
OpenTransport ==
  /\ pc = "open"
  /\ transportOpen' = TRUE
  /\ opens' = opens + 1
  /\ totalOpens' = totalOpens + 1
  /\ totalDiscoveryRuns' = totalDiscoveryRuns + 1
  /\ log' = Append(log, PrefixRecord(129, access_token))
  /\ pagination_token' = None
  /\ tools' = <<>>
  /\ pc' = "list"
  /\ UNCHANGED << invVars, validated, totalTokenCalls, access_token, gen, outcome,
                  errMsg, escaped, out, tokenCalls, releases, requests, served,
                  discoveries, rtVars >>

OpenFails_ReacquiresToken(msg) ==
  /\ pc = "open"
  /\ tokenCalls < 2
  /\ log' = Append(log, PrefixRecord(129, access_token))
  /\ tokenCalls' = tokenCalls + 1
  /\ pc' = "await_token"
  /\ UNCHANGED << invVars, totVars, access_token, gen, outcome, errMsg, escaped, out,
                  trVars, pgVars, rtVars >>

\* __enter__ raises after the transport factory has run: the block is not
\* entered, __exit__ is not called.
OpenFails(msg) ==
  /\ pc = "open"
  /\ log' = Append(log, PrefixRecord(129, access_token))
  /\ FailInTry(msg, "open_failed")
  /\ UNCHANGED << invVars, totVars, access_token, tokenCalls, trVars, pgVars, rtVars >>

MoreTools_StopOnRepeat(page) == page.cursor # None /\ page.cursor # pagination_token

MoreTools_Truthy(page) == page.cursor \notin {None, ""}

\* Lines 158-162: more_tools after a page.
MoreTools(page) == page.cursor # None

\* One iteration of the while loop of get_full_tools_list (lines 154-162),
\* against a gateway that serves at most `limit` pages; `ends` says whether
\* the gateway ends its listing with that page.
ListPage(limit, ends) ==
  /\ pc = "list"
  /\ Len(requests) < limit
  /\ \E items \in PageItems, cursor \in Cursors \cup {None} :
       LET tmp_tools == [items |-> items, cursor |-> cursor] IN
       /\ (ends /\ Len(requests) + 1 = limit) => cursor = None
       /\ requests' = Append(requests, pagination_token)
       /\ served' = Append(served, tmp_tools)
       /\ tools' = tools \o tmp_tools.items
       /\ IF MoreTools(tmp_tools)
          THEN /\ pagination_token' = tmp_tools.cursor
               /\ pc' = "list"
          ELSE /\ pagination_token' = pagination_token
               /\ pc' = "check_tools"
  /\ UNCHANGED << invVars, totVars, tkVars, gen, outcome, errMsg, escaped, out, tokenCalls,
                  trVars, discoveries, rtVars >>

\* The loop against a gateway whose listing ends within MaxPages pages.
ListToolsPage == ListPage(MaxPages, TRUE)

\* The loop against a gateway that may return a cursor on every page.
ListToolsPageUnending == ListPage(MaxLoop, FALSE)

PageFails_NoRelease(msg) ==
  /\ pc = "list"
  /\ Len(requests) < MaxPages
  /\ requests' = Append(requests, pagination_token)
  /\ FailInTry(msg, "page_failed")
  /\ UNCHANGED << invVars, totVars, tkVars, tokenCalls, trVars, pagination_token, tools, served,
                  discoveries, rtVars >>

\* list_tools_sync raises (line 155): the with block exits, then the except.
PageFails(msg) ==
  /\ pc = "list"
  /\ Len(requests) < MaxPages
  /\ requests' = Append(requests, pagination_token)
  /\ Release
  /\ FailInTry(msg, "page_failed")
  /\ UNCHANGED << invVars, totVars, tkVars, tokenCalls, pagination_token, tools, served,
                  discoveries, rtVars >>

ToolsEmpty_Never(t) == FALSE

\* `not tools` (line 181).
ToolsEmpty(t) == Len(t) = 0

\* get_full_tools_list returns (line 163, 172); lines 174-182.
CheckTools ==
  /\ pc = "check_tools"
  /\ discoveries' = discoveries + 1
  /\ IF ToolsEmpty(tools)
     THEN /\ Release
          /\ FailInTry(NoToolsMsg, "no_tools")
          /\ UNCHANGED << requests, served >>
     ELSE /\ pc' = "construct_agent"
          /\ requests' = <<>>
          /\ served' = <<>>
          /\ UNCHANGED << gen, outcome, errMsg, escaped, out, trVars >>
  /\ UNCHANGED << invVars, totVars, tkVars, tokenCalls, pagination_token, tools, rtVars >>

\* Agent(...) (lines 186-250) and agent.stream_async (line 259).
ConstructAgent ==
  /\ pc = "construct_agent"
  /\ agentConstructed' = agentConstructed + 1
  /\ streamCalls' = streamCalls + 1
  /\ pc' = "await_event"
  /\ UNCHANGED << invVars, totVars, tkVars, gen, outcome, errMsg, escaped, out, tokenCalls,
                  trVars, pgVars, produced >>

AgentFails_YieldInsideWith(msg) ==
  /\ pc = "construct_agent"
  /\ agentConstructed' = agentConstructed + 1
  /\ FailInTry(msg, "agent_failed")
  /\ UNCHANGED << invVars, totVars, tkVars, tokenCalls, trVars, pgVars, streamCalls,
                  produced >>

\* Agent(...) raises.
AgentFails(msg) ==
  /\ pc = "construct_agent"
  /\ agentConstructed' = agentConstructed + 1
  /\ Release
  /\ FailInTry(msg, "agent_failed")
  /\ UNCHANGED << invVars, totVars, tkVars, tokenCalls, pgVars, streamCalls, produced >>

\* The stream produces an event: access_to_slack yields it (line 273) and
\* slack_agent yields it to the caller (lines 333-340); both are suspended.
RuntimeYields(event) ==
  /\ pc = "await_event"
  /\ Len(produced) < MaxEvents
  /\ produced' = Append(produced, event)
  /\ out' = Relay(out, event, "runtime")
  /\ gen' = "suspended"
  /\ pc' = "at_yield"
  /\ UNCHANGED << invVars, totVars, tkVars, outcome, errMsg, escaped, tokenCalls, trVars, pgVars,
                  agentConstructed, streamCalls >>

\* The caller asks for the next event: both generators resume.
Resume ==
  /\ pc = "at_yield"
  /\ gen' = "active"
  /\ pc' = "await_event"
  /\ UNCHANGED << invVars, totVars, tkVars, outcome, errMsg, escaped, out, tokenCalls, trVars,
                  pgVars, rtVars >>

\* The stream ends (line 275): the with block exits, both generators return.
RuntimeEnds ==
  /\ pc = "await_event"
  /\ Release
  /\ gen' = "closed"
  /\ outcome' = "stream_ended"
  /\ pc' = "done"
  /\ UNCHANGED << invVars, totVars, tkVars, errMsg, escaped, out, tokenCalls, pgVars, rtVars >>

RuntimeRaises_Continues(msg) ==
  /\ pc = "await_event"
  /\ out' = Relay(out, ErrorEvent(Classify(msg)), "handler")
  /\ UNCHANGED << invVars, totVars, tkVars, pc, gen, outcome, errMsg, escaped, tokenCalls, trVars,
                  pgVars, rtVars >>

\* The stream raises while being consumed (line 262).
RuntimeRaises(msg) ==
  /\ pc = "await_event"
  /\ Release
  /\ FailInTry(msg, "stream_raised")
  /\ UNCHANGED << invVars, totVars, tkVars, tokenCalls, pgVars, rtVars >>

(* ------------------------------ cancellation --------------------------- *)
\* CancelledError is thrown into the await of line 116.  It is a
\* BaseException: neither except clause catches it.
CancelAwaitToken ==
  /\ pc = "await_token"
  /\ gen' = "closed"
  /\ outcome' = "cancelled"
  /\ escaped' = "CancelledError"
  /\ pc' = "done"
  /\ UNCHANGED << invVars, totVars, tkVars, errMsg, out, tokenCalls, trVars, pgVars, rtVars >>

\* CancelledError is thrown into the await of the stream's next event
\* (line 262): the with block exits on the way out.
CancelAwaitEvent ==
  /\ pc = "await_event"
  /\ Release
  /\ gen' = "closed"
  /\ outcome' = "cancelled"
  /\ escaped' = "CancelledError"
  /\ pc' = "done"
  /\ UNCHANGED << invVars, totVars, tkVars, errMsg, out, tokenCalls, pgVars, rtVars >>

\* The caller closes slack_agent while it is suspended at its yield
\* (lines 334-340): GeneratorExit leaves the `async for` of line 331, which
\* does not close access_to_slack; that generator stays suspended at
\* line 273, inside `with mcp_client`.
CancelAtYield ==
  /\ pc = "at_yield"
  /\ outcome' = "cancelled"
  /\ escaped' = "GeneratorExit"
  /\ pc' = "done"
  /\ UNCHANGED << invVars, totVars, tkVars, gen, errMsg, out, tokenCalls, trVars, pgVars, rtVars >>

\* The event loop's asynchronous-generator finalizer closes the abandoned
\* access_to_slack: GeneratorExit at line 273 exits the with block.
FinalizeGenerator ==
  /\ pc = "done"
  /\ gen = "suspended"
  /\ Release
  /\ gen' = "closed"
  /\ UNCHANGED << invVars, totVars, tkVars, pc, outcome, errMsg, escaped, out, tokenCalls, pgVars,
                  rtVars >>

(* ----------------------------- next invocation ------------------------- *)
\* The runtime invokes the entrypoint again (line 298-299); the environment
\* is read anew by __init__ (lines 33-34).
NextInvocation ==
  /\ pc = "done"
  /\ gen # "suspended"
  /\ inv < MaxInvocations
  /\ inv' = inv + 1
  /\ prevConfigError' = (outcome = "config_error")
  /\ env' \in [gateway_url : UrlValues, cognito_scope : ScopeValues]
  /\ payload' \in Payloads
  /\ pc' = "start"
  /\ gen' = "none"
  /\ outcome' = "none"
  /\ errMsg' = <<>>
  /\ escaped' = "none"
  /\ out' = <<>>
  /\ tokenCalls' = 0
  /\ transportOpen' = FALSE
  /\ opens' = 0
  /\ releases' = 0
  /\ pagination_token' = None
  /\ tools' = <<>>
  /\ requests' = <<>>
  /\ served' = <<>>
  /\ discoveries' = 0
  /\ agentConstructed' = 0
  /\ streamCalls' = 0
  /\ produced' = <<>>
  /\ access_token' = NoToken
  /\ log' = <<>>
  /\ UNCHANGED totVars

Next ==
  \/ Construct
  \/ ValidatePayload
  \/ \E tok \in IssuedTokens : TokenReturns(tok)
  \/ \E msg \in Messages : TokenFails(msg)
  \/ OpenTransport
  \/ \E msg \in Messages : OpenFails(msg)
  \/ ListToolsPage
  \/ \E msg \in Messages : PageFails(msg)
  \/ CheckTools
  \/ ConstructAgent
  \/ \E msg \in Messages : AgentFails(msg)
  \/ \E event \in RuntimeEvents : RuntimeYields(event)
  \/ Resume
  \/ RuntimeEnds
  \/ \E msg \in Messages : RuntimeRaises(msg)
  \/ CancelAwaitToken
  \/ CancelAwaitEvent
  \/ CancelAtYield
  \/ FinalizeGenerator
  \/ NextInvocation

Spec == Init /\ [][Next]_vars

\* The token path alone (lines 310-331, 112-169), for every token of Tokens.
NextToken ==
  \/ Construct
  \/ ValidatePayload
  \/ \E tok \in Tokens : TokenReturns(tok)
  \/ \E msg \in Messages : TokenFails(msg)
  \/ OpenTransport
  \/ \E msg \in Messages : OpenFails(msg)

SpecToken == Init /\ [][NextToken]_vars

\* One invocation up to the end of tool discovery, against a gateway that is
\* free to return a cursor on every page.
NextPaging ==
  \/ Construct
  \/ ValidatePayload
  \/ \E tok \in IssuedTokens : TokenReturns(tok)
  \/ OpenTransport
  \/ ListToolsPageUnending
  \/ CheckTools

SpecPaging == Init /\ [][NextPaging]_vars

(* ============================== properties ============================= *)
\* The events of the outbound stream, without the history field.
Events(o) == [i \in DOMAIN o |-> o[i].ev]

\* Positions of the handler-generated events of the outbound stream.
HandlerEvents(o) == {i \in DOMAIN o : o[i].by = "handler"}

FailureOutcomes == {"config_error", "invalid_payload", "token_failed", "open_failed",
                    "page_failed", "no_tools", "agent_failed", "stream_raised"}

BadConfig == env.gateway_url \in {None, ""} \/ env.cognito_scope \in {None, ""}

NoExternalCall ==
  /\ tokenCalls = 0
  /\ opens = 0
  /\ ~transportOpen
  /\ requests = <<>>
  /\ discoveries = 0
  /\ agentConstructed = 0
  /\ streamCalls = 0
  /\ produced = <<>>
  /\ gen = "none"

RECURSIVE ConcatItems(_)
ConcatItems(pages) ==
  IF pages = <<>> THEN <<>> ELSE Head(pages).items \o ConcatItems(Tail(pages))

\* C1: whenever an invocation has failed, at whichever step, the stream holds
\* exactly one handler-generated error event, it is the last event and follows
\* exactly the events already relayed, every step ran at most once, and no
\* exception left the entrypoint.
C1_EveryFailureOneFinalError ==
  outcome \in FailureOutcomes =>
    /\ pc = "done"
    /\ escaped = "none"
    /\ Cardinality(HandlerEvents(out)) = 1
    /\ Len(out) = Len(produced) + 1
    /\ out[Len(out)].by = "handler"
    /\ out[Len(out)].ev.key = "error"
    /\ SubSeq(Events(out), 1, Len(out) - 1) = produced
    /\ tokenCalls <= 1 /\ opens <= 1 /\ discoveries <= 1
    /\ agentConstructed <= 1 /\ streamCalls <= 1
    /\ (outcome = "page_failed" => Len(requests) = Len(served) + 1)

C1_Witness ==
  /\ outcome = "stream_raised"
  /\ Len(produced) >= 1
  /\ Len(out) = Len(produced) + 1

\* C2: while the runtime's stream is consumed and when it has ended without
\* raising, the events yielded by slack_agent are exactly the events the
\* runtime produced, in order.
C2_RelayIsExact ==
  (pc \in {"await_event", "at_yield"} \/ outcome = "stream_ended")
    => Events(out) = produced

C2_Witness ==
  /\ outcome = "stream_ended"
  /\ Len(produced) >= 2
  /\ produced[1] # produced[2]
  /\ Events(out) = produced

\* C3 (as claimed): no event follows an event that carries the key "error",
\* whoever generated it.
C3_AnyErrorEventTerminal ==
  \A i \in 1..(Len(out) - 1) : out[i].ev.key # "error"

\* C3 (amended): a handler-generated error event is the last event of the
\* stream and the invocation has stopped; an event with the key "error"
\* produced by the runtime is relayed like any other.
C3_HandlerErrorTerminal ==
  \A i \in DOMAIN out : out[i].by = "handler" => (i = Len(out) /\ pc = "done")

C3_Witness ==
  /\ Len(out) >= 2
  /\ out[1].ev.key = "error"
  /\ out[1].by = "runtime"
  /\ out[Len(out)].by = "handler"
  /\ pc = "done"

C5_TransportScoped ==
  /\ [](/\ (pc \in {"list", "check_tools", "construct_agent", "await_event", "at_yield"}
              => transportOpen /\ opens = 1 /\ releases = 0)
        /\ (gen = "closed" => ~transportOpen /\ releases = opens /\ opens <= 1)
        /\ (gen = "closed" /\ outcome \in {"page_failed", "no_tools", "agent_failed",
                                           "stream_raised", "stream_ended"}
              => releases = 1))
  /\ [][(Len(requests') > Len(requests) => transportOpen /\ opens = 1)
        /\ (Len(produced') > Len(produced) => transportOpen /\ transportOpen')]_vars

C5_Witness ==
  /\ gen = "closed"
  /\ outcome = "stream_raised"
  /\ Len(produced) >= 1
  /\ opens = 1
  /\ releases = 1
  /\ ~transportOpen

\* C6: once a cancelled invocation has left the entrypoint, the transport is
\* not open.
C6_CancelReleasesTransport ==
  (pc = "done" /\ outcome = "cancelled") => ~transportOpen

\* C7: when get_full_tools_list returns after k pages, it has issued k
\* requests, the first without cursor and each next one with the cursor of the
\* page before, only the last page had no cursor, and the tools are the
\* concatenation of the pages in order.
C7_PaginationExact ==
  pc = "check_tools" =>
    LET k == Len(served) IN
    /\ k >= 1
    /\ Len(requests) = k
    /\ requests[1] = None
    /\ \A i \in 1..(k - 1) : served[i].cursor # None /\ requests[i + 1] = served[i].cursor
    /\ served[k].cursor = None
    /\ tools = ConcatItems(served)

C7_Witness ==
  /\ pc = "check_tools"
  /\ served = << [items |-> <<"A", "B">>, cursor |-> "c1"],
                 [items |-> <<"C">>, cursor |-> None] >>
  /\ requests = << None, "c1" >>
  /\ tools = <<"A", "B", "C">>

\* C8: after a discovery that returned no tool, the stream is the single
\* no-tools error event, and neither Agent(...) nor stream_async was called.
C8_NoToolsIsFatal ==
  (discoveries >= 1 /\ Len(tools) = 0) =>
    /\ pc = "done"
    /\ Events(out) = << ErrorEvent(<<"ExecutionFailed:">> \o NoToolsMsg) >>
    /\ agentConstructed = 0
    /\ streamCalls = 0
    /\ produced = <<>>

C8_Witness ==
  /\ outcome = "no_tools"
  /\ Len(served) = 2
  /\ tools = <<>>
  /\ Len(out) = 1

\* C9: with GATEWAY_URL or COGNITO_SCOPE unset or empty, whatever the payload,
\* the invocation makes no external call, ends without raising with exactly
\* one event, the configuration error; and in every invocation the
\* configuration error is reported only for the environment of that invocation.
C9_BadConfigOneError ==
  /\ BadConfig =>
       /\ pc \in {"start", "done"}
       /\ escaped = "none"
       /\ NoExternalCall
       /\ (pc = "start" => out = <<>>)
       /\ (pc = "done" =>
             /\ outcome = "config_error"
             /\ Len(out) = 1
             /\ out[1].by = "handler"
             /\ out[1].ev.key = "error"
             /\ out[1].ev.val[1] = "ConfigError:")
  /\ ~BadConfig => outcome # "config_error"

C9_Witness ==
  /\ inv = 2
  /\ prevConfigError
  /\ BadConfig
  /\ payload.keys = {"prompt"}
  /\ pc = "done"
  /\ Len(out) = 1

\* C10: with valid configuration and a payload without the key 'prompt'
\* (None and the empty dict included), the invocation makes no external call
\* and its stream is the single missing-prompt error event.
C10_MissingPromptOneError ==
  (~BadConfig /\ "prompt" \notin payload.keys) =>
    /\ pc \in {"start", "validate", "done"}
    /\ escaped = "none"
    /\ NoExternalCall
    /\ (pc # "done" => out = <<>>)
    /\ (pc = "done" =>
          /\ outcome = "invalid_payload"
          /\ Events(out) = << ErrorEvent(InvalidPayloadText) >>
          /\ out[1].by = "handler")

C10_Witness ==
  /\ ~BadConfig
  /\ payload.keys = {"other"}
  /\ ~payload.isNone
  /\ pc = "done"
  /\ outcome = "invalid_payload"
  /\ Len(out) = 1

\* C11 (as claimed): the credential provider has been called once per
\* invocation that passed validation, and an invocation that obtained its
\* token and has ended opened one transport and ran tool discovery.
C11_TokenImpliesDiscovery ==
  /\ totalTokenCalls = validated
  /\ (pc = "done" /\ access_token # NoToken) =>
       /\ opens = 1
       /\ (Len(requests) >= 1 \/ discoveries = 1)

\* C11 (amended): nothing is cached: the credential provider has been called
\* exactly once per invocation that passed validation, tool discovery has run
\* exactly once per invocation whose transport opened, and an invocation whose
\* token acquisition or transport open failed ran no discovery.
C11_NoCaching ==
  /\ totalTokenCalls = validated
  /\ totalDiscoveryRuns = totalOpens
  /\ totalOpens <= validated
  /\ validated <= inv
  /\ tokenCalls <= 1 /\ opens <= 1 /\ discoveries <= 1
  /\ (pc \notin {"start", "validate"} /\ outcome \notin {"config_error", "invalid_payload"})
       => tokenCalls = 1
  /\ opens = 1 => (tokenCalls = 1 /\ access_token # NoToken)
  /\ (pc = "done" /\ opens = 1) => (Len(requests) >= 1 \/ discoveries = 1)
  /\ outcome \in {"token_failed", "open_failed"} =>
       (opens = 0 /\ requests = <<>> /\ discoveries = 0)

C11_Witness ==
  /\ inv = 2
  /\ pc = "done"
  /\ outcome = "stream_ended"
  /\ validated = 2
  /\ totalTokenCalls = 2
  /\ totalDiscoveryRuns = 2
  /\ tokenCalls = 1
  /\ discoveries = 1

\* C12 (as claimed): an exception raised while the stream is consumed is
\* reported as the generic execution-failure event with the message, whatever
\* the message.
C12_StreamFailureGeneric ==
  outcome = "stream_raised" =>
    out[Len(out)].ev = ErrorEvent(<<"ExecutionFailed:">> \o errMsg)

\* C12 (amended): an exception raised while the stream is consumed is reported
\* as one error event that ends with the message: the gateway-timeout event
\* when the message, in lower case, contains "read timeout", the
\* Gateway-URL-configuration event when it also contains "none", and the
\* generic execution-failure event otherwise.
C12_StreamFailureClassified ==
  outcome = "stream_raised" =>
    LET timeout == \E i \in DOMAIN errMsg : errMsg[i] \in {"Read timeout", "read timeout"}
        none == \E i \in DOMAIN errMsg : errMsg[i] \in {"None", "none"}
        prefix == IF timeout /\ none THEN "GatewayUrlConfigError:"
                  ELSE IF timeout THEN "GatewayTimeout:"
                  ELSE "ExecutionFailed:"
    IN /\ out[Len(out)].by = "handler"
       /\ out[Len(out)].ev = ErrorEvent(<<prefix>> \o errMsg)

C12_Witness ==
  /\ outcome = "stream_raised"
  /\ errMsg = <<"Read timeout", "none">>
  /\ Len(produced) >= 1
  /\ out[Len(out)].ev.val[1] = "GatewayUrlConfigError:"

\* C13: every log record that prints token text holds at most PrefixLen
\* characters, fewer than the token has, and is not the whole token.
C13_TokenNeverLoggedInFull ==
  \A i \in DOMAIN log :
    log[i].line \in {90, 129} =>
      /\ Len(log[i].text) <= PrefixLen
      /\ Len(log[i].text) < Len(access_token)
      /\ log[i].text # access_token

\* C14: within an invocation the position only moves forward (the page loop
\* and the event loop stay in their stage), every step runs at most once and
\* only after the steps before it succeeded, and with both configuration and
\* prompt missing the one error is the configuration error.
Stage(p) ==
  CASE p = "start" -> 0
    [] p = "validate" -> 1
    [] p = "await_token" -> 2
    [] p = "open" -> 3
    [] p = "list" -> 4
    [] p = "check_tools" -> 5
    [] p = "construct_agent" -> 6
    [] p \in {"await_event", "at_yield"} -> 7
    [] p = "done" -> 8

C14_LinearOrder ==
  /\ [](/\ tokenCalls <= 1 /\ opens <= 1 /\ discoveries <= 1
        /\ agentConstructed <= 1 /\ streamCalls <= 1
        /\ (tokenCalls = 1 => (~BadConfig /\ "prompt" \in payload.keys))
        /\ (opens = 1 => (tokenCalls = 1 /\ access_token # NoToken))
        /\ ((Len(requests) >= 1 \/ discoveries = 1) => opens = 1)
        /\ (agentConstructed = 1 => (discoveries = 1 /\ tools # <<>>))
        /\ (streamCalls = 1 => agentConstructed = 1)
        /\ (produced # <<>> => streamCalls = 1)
        /\ ((pc = "done" /\ BadConfig /\ "prompt" \notin payload.keys) =>
              /\ outcome = "config_error"
              /\ Len(out) = 1
              /\ out[1].ev.val[1] = "ConfigError:"))
  /\ [][inv' = inv =>
          /\ Stage(pc') >= Stage(pc)
          /\ (Stage(pc') = Stage(pc) => pc \in {"list", "await_event", "at_yield", "done"})
          /\ tokenCalls' >= tokenCalls
          /\ opens' >= opens
          /\ agentConstructed' >= agentConstructed]_vars

C14_Witness ==
  /\ outcome = "stream_ended"
  /\ tokenCalls = 1
  /\ opens = 1
  /\ discoveries = 1
  /\ agentConstructed = 1
  /\ streamCalls = 1
  /\ Len(produced) >= 1

\* C15: the loop has returned exactly when the last page served had no
\* cursor, with one request per page served; as long as every page carried a
\* cursor (a repeated or an empty one included) the loop is still running and
\* the invocation has emitted nothing.
C15_LoopEndsOnlyOnNone ==
  /\ pc = "list" =>
       /\ \A i \in DOMAIN served : served[i].cursor # None
       /\ Len(requests) = Len(served)
       /\ \A i \in 1..(Len(served) - 1) : requests[i + 1] = served[i].cursor
       /\ discoveries = 0
       /\ out = <<>>
  /\ pc = "check_tools" =>
       /\ served[Len(served)].cursor = None
       /\ \A i \in 1..(Len(served) - 1) : served[i].cursor # None
       /\ Len(requests) = Len(served)
  /\ discoveries = 1 => pc \in {"construct_agent", "done"}

C15_Witness ==
  /\ pc = "list"
  /\ requests = << None, "c1", "c1" >>
  /\ served[3].cursor = ""
  /\ pagination_token = ""
  /\ out = <<>>

\* C16: whenever the last event of the stream is the error event of a failure
\* inside the try block of access_to_slack, the transport is not open and has
\* been released as often as it was opened.
C16_ErrorAfterRelease ==
  (/\ Len(out) >= 1
   /\ out[Len(out)].by = "handler"
   /\ outcome \in {"open_failed", "page_failed", "no_tools", "agent_failed",
                   "stream_raised"})
    => (~transportOpen /\ releases = opens)

C16_Witness ==
  /\ outcome = "agent_failed"
  /\ out[Len(out)].by = "handler"
  /\ opens = 1
  /\ releases = 1
  /\ ~transportOpen

====
